---------------------------- MODULE Spec2Model ----------------------------
(***************************************************************************)
(* Menu ETL / calorie imputation pipeline.                                 *)
(*                                                                         *)
(*   src/etl/etl_advanced.py              normalisation + aggregation      *)
(*   src/scripts/local_fuzzy_impute.py    fuzzy reference imputation       *)
(*   src/scripts/impute_with_model.py     text-regression imputation       *)
(*   src/scripts/train_text_regressor.py  regressor training               *)
(*                                                                         *)
(* Conventions.  A Python value is a record [t, n, s, d]: t is its type    *)
(* tag, n its number, s its characters, d its mapping or its elements.  A  *)
(* Python str is a sequence of one-character strings.  A Python float is   *)
(* a fixed-point number held in tenths (FltV(999) is 99.9); a Python int   *)
(* is held as is.  A file of the data directory is a variable; Absent is   *)
(* a missing file.  Operators take what they compute with as parameters,   *)
(* so that every value is computed once.                                   *)
(***************************************************************************)
EXTENDS Integers, Sequences, FiniteSets, TLC

(***************************************************************************)
(* Python values                                                           *)
(***************************************************************************)
NoDict == <<>>
NoneV == [t |-> "none", n |-> 0, s |-> <<>>, d |-> NoDict]
IntV(k) == [t |-> "int", n |-> k, s |-> <<>>, d |-> NoDict]
FltV(k) == [t |-> "float", n |-> k, s |-> <<>>, d |-> NoDict]
BoolV(b) == [t |-> "bool", n |-> IF b THEN 1 ELSE 0, s |-> <<>>, d |-> NoDict]
StrV(cs) == [t |-> "str", n |-> 0, s |-> cs, d |-> NoDict]
DictV(f) == [t |-> "dict", n |-> 0, s |-> <<>>, d |-> f]
ListV(xs) == [t |-> "list", n |-> 0, s |-> <<>>, d |-> xs]
EmptyStr == StrV(<<>>)

\* Python truthiness: None, 0, 0.0, False, '', {} and [] are falsy.
Truthy(v) ==
    CASE v.t = "none" -> FALSE
      [] v.t \in {"int", "float", "bool"} -> v.n # 0
      [] v.t = "str" -> v.s # <<>>
      [] v.t = "dict" -> DOMAIN v.d # {}
      [] v.t = "list" -> v.d # <<>>
      [] OTHER -> TRUE

\* a or b
Or(a, b) == IF Truthy(a) THEN a ELSE b

\* dict.get(k): None when the key is missing.
Get(rec, k) == IF k \in DOMAIN rec THEN rec[k] ELSE NoneV

IsDict(v) == v.t = "dict"
IsNull(v) == v.t = "none"

\* v == ''
IsEmptyStr(v) == v.t = "str" /\ v.s = <<>>

\* a if a is not None else b
OrElse(a, b) == IF IsNull(a) THEN b ELSE a

(***************************************************************************)
(* Strings                                                                 *)
(***************************************************************************)
\* str.lower(), over the letters the model's strings hold in upper case.
Lower(s) ==
    LET LowerChar(c) ==
            CASE c = "A" -> "a"
              [] c = "B" -> "b"
              [] c = "C" -> "c"
              [] c = "M" -> "m"
              [] c = "S" -> "s"
              [] c = "V" -> "v"
              [] c = "X" -> "x"
              [] OTHER -> c
    IN  [i \in 1..Len(s) |-> LowerChar(s[i])]

\* str.strip()
Strip(s) ==
    LET RECURSIVE LStrip(_)
        LStrip(u) == IF u # <<>> /\ Head(u) = " " THEN LStrip(Tail(u)) ELSE u
        RECURSIVE RStrip(_)
        RStrip(u) ==
            IF u # <<>> /\ u[Len(u)] = " " THEN RStrip(SubSeq(u, 1, Len(u) - 1)) ELSE u
    IN  RStrip(LStrip(s))

\* str.replace(tok, ''): every non-overlapping occurrence, leftmost first.
RECURSIVE Remove(_, _)
Remove(s, tok) ==
    IF Len(s) < Len(tok) THEN s
    ELSE IF SubSeq(s, 1, Len(tok)) = tok
         THEN Remove(SubSeq(s, Len(tok) + 1, Len(s)), tok)
         ELSE <<Head(s)>> \o Remove(Tail(s), tok)

\* ' '.join(s.split()): a blank is kept when it follows a non-blank and
\* a non-blank comes after it.
Collapse(s) ==
    SelectSeq([i \in 1..Len(s) |->
                  IF s[i] # " " THEN s[i]
                  ELSE IF /\ \E j \in 1..(i - 1) : s[j] # " "
                          /\ \E j \in (i + 1)..Len(s) : s[j] # " "
                          /\ s[i - 1] # " "
                       THEN " " ELSE ""],
              LAMBDA c : c # "")

Digits == <<"0", "1", "2", "3", "4", "5", "6", "7", "8", "9">>

RECURSIVE DigitsToInt(_)
DigitsToInt(s) ==
    IF s = <<>> THEN 0
    ELSE 10 * DigitsToInt(SubSeq(s, 1, Len(s) - 1))
            + (CHOOSE i \in 1..10 : Digits[i] = s[Len(s)]) - 1

\* str(i) for i >= 0
RECURSIVE IntToStr(_)
IntToStr(i) ==
    IF i < 10 THEN <<Digits[i + 1]>>
    ELSE IntToStr(i \div 10) \o <<Digits[(i % 10) + 1]>>

\* str() of a value that is used as a name, a title or an id: a str, a
\* non-negative int, or None.
Str(v) ==
    CASE v.t = "str" -> v.s
      [] v.t = "int" -> IntToStr(v.n)
      [] OTHER -> <<"N", "o", "n", "e">>

(***************************************************************************)
(* Numbers                                                                 *)
(***************************************************************************)
\* float(str): blanks stripped, an optional sign, digits with at most one
\* point and at least one digit.  The value is in tenths; digits after the
\* first decimal are dropped (the inputs carry at most one).  Numeral takes
\* the unsigned numeral u and the position p of its point (Len(u) + 1 if it
\* has none).
ParseFloat(cs) ==
    LET IsDigit(c) == \E i \in 1..10 : Digits[i] = c
        Numeral(u, p, neg) ==
            IF /\ \A i \in 1..Len(u) : i # p => IsDigit(u[i])
               /\ Len(u) > (IF p <= Len(u) THEN 1 ELSE 0)
            THEN [ok |-> TRUE,
                  n |-> (IF neg THEN -1 ELSE 1)
                          * (10 * DigitsToInt(SubSeq(u, 1, p - 1))
                               + (IF p < Len(u) THEN DigitsToInt(<<u[p + 1]>>) ELSE 0))]
            ELSE [ok |-> FALSE, n |-> 0]
        PointAt(u) ==
            IF \E i \in 1..Len(u) : u[i] = "."
            THEN CHOOSE i \in 1..Len(u) : u[i] = "." /\ \A j \in 1..(i - 1) : u[j] # "."
            ELSE Len(u) + 1
        Unsigned(u, neg) == Numeral(u, PointAt(u), neg)
        Parse(t) ==
            IF t # <<>> /\ Head(t) \in {"-", "+"}
            THEN Unsigned(Tail(t), Head(t) = "-")
            ELSE Unsigned(t, FALSE)
    IN  Parse(Strip(cs))

\* float(v), in tenths; ok = FALSE is the TypeError / ValueError.
ToFloat(v) ==
    CASE v.t \in {"int", "bool"} -> [ok |-> TRUE, n |-> 10 * v.n]
      [] v.t = "float" -> [ok |-> TRUE, n |-> v.n]
      [] v.t = "str" -> ParseFloat(v.s)
      [] OTHER -> [ok |-> FALSE, n |-> 0]

\* try: int(f) except: None.  int(x) of a float (in tenths) truncates
\* toward zero.
IntOrNone(f) ==
    LET Trunc(n) == IF n >= 0 THEN n \div 10 ELSE -((-n) \div 10)
    IN  IF f.ok THEN IntV(Trunc(f.n)) ELSE NoneV

\* try: float(f) except: None
FloatOrNone(f) == IF f.ok THEN FltV(f.n) ELSE NoneV

\* The slip etl.py makes (lines 39-47): no price is price 0.
coerce_price_zero(val) ==
    IF IsNull(val) \/ IsEmptyStr(val) THEN IntV(0)
    ELSE OrElse(IntOrNone(ToFloat(val)), IntV(0))

coerce_price(val) ==
    IF IsNull(val) \/ IsEmptyStr(val) THEN NoneV ELSE IntOrNone(ToFloat(val))

(***************************************************************************)
(* Vendor identity                                                         *)
(***************************************************************************)
UNKNOWN == <<"u", "n", "k", "n", "o", "w", "n">>

\* for token in ('menus','menu','menues','menus ','menu '):
\*     s = s.replace(token, '')
normalize_vendor_name(name) ==
    LET RECURSIVE RemoveAll(_, _)
        RemoveAll(s, toks) ==
            IF toks = <<>> THEN s ELSE RemoveAll(Remove(s, Head(toks)), Tail(toks))
    IN  IF ~Truthy(name) THEN UNKNOWN
        ELSE Collapse(RemoveAll(Lower(Strip(Str(name))),
                                << <<"m", "e", "n", "u", "s">>,
                                   <<"m", "e", "n", "u">>,
                                   <<"m", "e", "n", "u", "e", "s">>,
                                   <<"m", "e", "n", "u", "s", " ">>,
                                   <<"m", "e", "n", "u", " ">> >>))

\* hashlib.md5(ns).hexdigest()[:8]: the digest is not computed; it is held
\* as the tag "#" followed by the hashed characters (deterministic, and
\* without collisions on the names enumerated).
Md5Hex8(cs) == <<"#">> \o cs

\* A plausible slip: the id is derived from the raw name.
vendor_id_from_raw(name) == Md5Hex8(Str(name))

vendor_id_from_name(name) == Md5Hex8(normalize_vendor_name(name))

(***************************************************************************)
(* extract_nutrition                                                       *)
(***************************************************************************)
Aliases ==
    [calories |-> <<"calories", "cal", "energy">>,
     protein |-> <<"protein", "prot">>,
     fat |-> <<"fat">>,
     carbs |-> <<"carbs", "carbohydrates">>]

\* record: the mapping of a raw item.  The result holds a key only for the
\* fields that were found (nd: the nested mapping, if `nutrition` is one).
extract_nutrition(record) ==
    LET Present(dct, aliases) == SelectSeq(aliases, LAMBDA k : k \in DOMAIN dct)
        \* for k in aliases: if k in nd: n[field] = nd.get(k)   (the last one stays)
        LastOf(nd, ps) ==
            IF ps = <<>> THEN [has |-> FALSE, v |-> NoneV]
            ELSE [has |-> TRUE, v |-> nd[ps[Len(ps)]]]
        Nested(nd, aliases) == LastOf(nd, Present(nd, aliases))
        \* for k in aliases: if k in record and field not in n: n[field] = record.get(k)
        FirstOf(sofar, ps) ==
            IF sofar.has \/ ps = <<>> THEN sofar ELSE [has |-> TRUE, v |-> record[ps[1]]]
        TopLevel(aliases, sofar) == FirstOf(sofar, Present(record, aliases))
        \* float(x) if x is not None and x != '' else None; None on an exception.
        CoerceFloat(v) ==
            IF IsNull(v) \/ IsEmptyStr(v) THEN NoneV ELSE FloatOrNone(ToFloat(v))
        NutritionDict(nut) == IF IsDict(nut) THEN nut.d ELSE NoDict
        FoundIn(nd) ==
            [calories |-> TopLevel(Aliases.calories, Nested(nd, Aliases.calories)),
             protein |-> TopLevel(Aliases.protein, Nested(nd, Aliases.protein)),
             fat |-> Nested(nd, Aliases.fat),
             carbs |-> Nested(nd, Aliases.carbs)]
        Coerced(found) ==
            [k \in {f \in DOMAIN found : found[f].has} |-> CoerceFloat(found[k].v)]
    IN  Coerced(FoundIn(NutritionDict(Get(record, "nutrition"))))

(***************************************************************************)
(* Record normalizer.  A canonical item is a record of Python values; the  *)
(* ingest_ts column (the wall clock) is left out: nothing reads it.        *)
(***************************************************************************)
\* The item both entry points build from the raw item `it`: id is the id
\* the source gives (under the keys the entry point reads), nut the result
\* of extract_nutrition(it).
ItemRow(it, vendor_name, v_norm, v_id, i, src, id, category, nut) ==
    [vendor_id |-> v_id,
     vendor_name |-> v_norm,
     source |-> src,
     source_index |-> i,
     source_vendor_name |-> vendor_name,
     \* ... or f"{v_id}-{i}"
     item_id |-> Or(id, StrV(v_id \o <<"-">> \o IntToStr(i))),
     title |-> Or(Or(Get(it, "title"), Get(it, "name")), NoneV),
     description |-> Or(Get(it, "description"), NoneV),
     price_cents |-> coerce_price(Get(it, "price")),
     category |-> category,
     tags |-> IF Get(it, "tags").t = "list" THEN Get(it, "tags") ELSE NoneV,
     calories |-> Get(nut, "calories"),
     protein |-> Get(nut, "protein"),
     fat |-> Get(nut, "fat"),
     carbs |-> Get(nut, "carbs")]

\* The item list of a vendor object: v.get('items', []) or []
ItemsOf(v) == Or(Get(v.d, "items"), ListV(<<>>))

\* An item that is not a mapping raises AttributeError at it.get; so does a
\* vendor object that is not one, and a truthy `items` that is not a list
\* has no mapping elements.
VendorRaises(v) ==
    LET NoItemList(its) == its.t # "list" \/ \E i \in 1..Len(its.d) : ~IsDict(its.d[i])
    IN  ~IsDict(v) \/ NoItemList(ItemsOf(v))

\* The rows of one vendor object (enumerate is 0-based).
VendorRows(v) ==
    LET Items(vendor_name, v_norm, v_id, its) ==
            [k \in 1..Len(its) |->
                ItemRow(its[k].d, vendor_name, v_norm, v_id, k - 1, "vendor_menus.json",
                        Get(its[k].d, "id"),
                        Or(Get(its[k].d, "category"), NoneV),
                        extract_nutrition(its[k].d))]
        RowsOf(vendor_name, its) ==
            Items(vendor_name, normalize_vendor_name(vendor_name),
                  vendor_id_from_name(vendor_name), its)
    IN  RowsOf(Or(Or(Or(Get(v.d, "vendorName"), Get(v.d, "hotel")), Get(v.d, "vendor")),
                  StrV(UNKNOWN)),
               ItemsOf(v).d)

\* ok = FALSE: the call raised.
from_vendor_menus(vendor_list) ==
    LET RECURSIVE RowsAll(_)
        RowsAll(vs) == IF vs = <<>> THEN <<>> ELSE VendorRows(Head(vs)) \o RowsAll(Tail(vs))
    IN  IF \E j \in 1..Len(vendor_list) : VendorRaises(vendor_list[j])
        THEN [ok |-> FALSE, rows |-> <<>>]
        ELSE [ok |-> TRUE, rows |-> RowsAll(vendor_list)]

\* The row of the partner item `it` at index i.
PartnerRow(it, i) ==
    LET RowOf(vendor_name) ==
            ItemRow(it, vendor_name, normalize_vendor_name(vendor_name),
                    vendor_id_from_name(vendor_name), i, "partner_menus.json",
                    Or(Get(it, "id"), Get(it, "item_id")),
                    Or(Or(Get(it, "category"), Get(it, "menu_category")), NoneV),
                    extract_nutrition(it))
    IN  RowOf(Or(Or(Or(Get(it, "hotel"), Get(it, "vendor")), Get(it, "hotelName")),
                 StrV(UNKNOWN)))

from_partner_menus(flat_items) ==
    IF \E j \in 1..Len(flat_items) : ~IsDict(flat_items[j])
    THEN [ok |-> FALSE, rows |-> <<>>]
    ELSE [ok |-> TRUE,
          rows |-> [k \in 1..Len(flat_items) |-> PartnerRow(flat_items[k].d, k - 1)]]

(***************************************************************************)
(* Vendor aggregator.  A statistic is None or a reduced fraction           *)
(* [num, den]; calories and protein are floats in tenths, so their         *)
(* fractions carry the factor 10 in the denominator.                       *)
(***************************************************************************)
RECURSIVE Gcd(_, _)
Gcd(a, b) == IF b = 0 THEN a ELSE Gcd(b, a % b)

\* The fraction num / den (den > 0) in lowest terms.
Rat(num, den) ==
    LET Reduce(g) == [num |-> num \div g, den |-> den \div g]
    IN  IF num = 0 THEN [num |-> 0, den |-> 1]
        ELSE Reduce(Gcd(IF num < 0 THEN -num ELSE num, den))

\* A plausible slip: fillna(0), a null cell counts as 0.
RECURSIVE FillNa(_, _)
FillNa(g, col) ==
    IF g = <<>> THEN <<>>
    ELSE <<IF IsNull(Head(g)[col]) THEN 0 ELSE Head(g)[col].n>> \o FillNa(Tail(g), col)

\* g[col].dropna(): the numbers of the non-null cells, in row order.
RECURSIVE DropNa(_, _)
DropNa(g, col) ==
    IF g = <<>> THEN <<>>
    ELSE (IF IsNull(Head(g)[col]) THEN <<>> ELSE <<Head(g)[col].n>>)
            \o DropNa(Tail(g), col)

RECURSIVE SeqSum(_)
SeqSum(xs) == IF xs = <<>> THEN 0 ELSE Head(xs) + SeqSum(Tail(xs))

SeqMin(xs) == CHOOSE x \in {xs[i] : i \in 1..Len(xs)} : \A j \in 1..Len(xs) : x <= xs[j]
SeqMax(xs) == CHOOSE x \in {xs[i] : i \in 1..Len(xs)} : \A j \in 1..Len(xs) : x >= xs[j]

Median(xs, scale) ==
    LET Middle(srt, n) ==
            IF n % 2 = 1 THEN Rat(srt[(n + 1) \div 2], scale)
            ELSE Rat(srt[n \div 2] + srt[n \div 2 + 1], 2 * scale)
    IN  Middle(SortSeq(xs, LAMBDA a, b : a < b), Len(xs))

NaN == [num |-> 0, den |-> 0]

\* Series.std(): the sample deviation (n - 1), NaN for a single value.  The
\* root is not taken: the cell holds the variance it is the root of.
SampleStd(xs) ==
    LET \* The sum of the squares of n * x - total over ys.
        RECURSIVE SumSq(_, _, _)
        SumSq(ys, n, total) ==
            IF ys = <<>> THEN 0
            ELSE (n * Head(ys) - total) * (n * Head(ys) - total)
                    + SumSq(Tail(ys), n, total)
    IN  IF Len(xs) < 2 THEN NaN
        ELSE Rat(SumSq(xs, Len(xs), SeqSum(xs)), Len(xs) * Len(xs) * (Len(xs) - 1))

CHEAP_BELOW == 100
MEDIUM_BELOW == 300

\* A plausible slip: the limits belong to the lower bucket.
price_bucket_upto(p) ==
    IF IsNull(p) THEN "unknown"
    ELSE IF p.n <= CHEAP_BELOW THEN "cheap"
    ELSE IF p.n <= MEDIUM_BELOW THEN "medium"
    ELSE "expensive"

price_bucket(p) ==
    IF IsNull(p) THEN "unknown"
    ELSE IF p.n < CHEAP_BELOW THEN "cheap"
    ELSE IF p.n < MEDIUM_BELOW THEN "medium"
    ELSE "expensive"

\* A plausible slip: the percentage is cut to two decimals, not rounded.
PctCut(k, n) == Rat((10000 * k) \div n, 100)

\* round(100.0 * k / n, 2), as a fraction of hundredths.
Pct(k, n) == Rat((10000 * k + n \div 2) \div n, 100)

\* (g['price_cents'].apply(price_bucket) == b).sum()
InBucket(g, b) == Cardinality({i \in 1..Len(g) : price_bucket(g[i].price_cents) = b})

\* float(xs.mean()) if xs.size else None; scale: 1 for ints, 10 for floats
\* held in tenths.
MeanOrNone(xs, scale) ==
    IF xs # <<>> THEN Rat(SeqSum(xs), scale * Len(xs)) ELSE NoneV

\* price: g['price_cents'].dropna()
PriceAvg(g, price) == MeanOrNone(price, 1)

\* The pd.Series built for one group g (a non-empty sequence of rows); cal,
\* prot and price are its three dropna() columns.
AggRow(g) ==
    LET Series(cal, prot, price) ==
            [vendor_id |-> g[1].vendor_id,
             vendor_name |-> g[1].vendor_name,
             item_count |-> Len(g),
             items_with_nutrition_count |-> Len(cal),
             percent_with_nutrition |-> Pct(Len(cal), Len(g)),
             avg_calories |-> MeanOrNone(cal, 10),
             median_calories |-> IF cal # <<>> THEN Median(cal, 10) ELSE NoneV,
             min_calories |-> IF cal # <<>> THEN Rat(SeqMin(cal), 10) ELSE NoneV,
             max_calories |-> IF cal # <<>> THEN Rat(SeqMax(cal), 10) ELSE NoneV,
             sum_protein |-> IF prot # <<>> THEN Rat(SeqSum(prot), 10) ELSE Rat(0, 1),
             avg_protein |-> MeanOrNone(prot, 10),
             price_avg |-> PriceAvg(g, price),
             price_median |-> IF price # <<>> THEN Median(price, 1) ELSE NoneV,
             price_stddev |-> IF price # <<>> THEN SampleStd(price) ELSE NoneV,
             cheap_pct |-> Pct(InBucket(g, "cheap"), Len(g)),
             medium_pct |-> Pct(InBucket(g, "medium"), Len(g)),
             expensive_pct |-> Pct(InBucket(g, "expensive"), Len(g)),
             missing_nutrition_flag |-> cal = <<>>,
             duplicated_vendor_flag |-> FALSE]
    IN  Series(DropNa(g, "calories"), DropNa(g, "protein"), DropNa(g, "price_cents"))

\* A plausible slip: the groups are those of the raw vendor names.
compute_vendor_aggregates_raw(rows) ==
    LET GroupKey(r) == r.source_vendor_name
        GroupOf(key) == SelectSeq(rows, LAMBDA r : GroupKey(r) = key)
    IN  {AggRow(GroupOf(key)) : key \in {GroupKey(rows[i]) : i \in 1..Len(rows)}}

\* df.groupby(['vendor_id','vendor_name']).apply(...): one row per key.  The
\* table is held as the set of its rows (groupby orders them by key).
compute_vendor_aggregates(rows) ==
    LET GroupKey(r) == <<r.vendor_id, r.vendor_name>>
        GroupOf(key) == SelectSeq(rows, LAMBDA r : GroupKey(r) = key)
    IN  {AggRow(GroupOf(key)) : key \in {GroupKey(rows[i]) : i \in 1..Len(rows)}}

\* compute_metrics, without the ingest_ts entry.
compute_metrics(rows) ==
    LET Metrics(total, cal, prot) ==
            [total_items |-> total,
             vendors |-> Cardinality({rows[i].vendor_id : i \in 1..total}),
             items_with_calories |-> cal,
             items_with_protein |-> prot,
             pct_with_calories |-> IF total # 0 THEN Pct(cal, total) ELSE Rat(0, 1),
             pct_with_protein |-> IF total # 0 THEN Pct(prot, total) ELSE Rat(0, 1)]
    IN  Metrics(Len(rows), Len(DropNa(rows, "calories")), Len(DropNa(rows, "protein")))

(***************************************************************************)
(* Fuzzy nutrition matcher (local_fuzzy_impute.py)                         *)
(***************************************************************************)
HIGH_THRESH == 90
MED_THRESH == 75

\* normalize(s): '' for None, else ' '.join(str(s).lower().strip().split())
normalize(v) == IF IsNull(v) THEN <<>> ELSE Collapse(Lower(Strip(Str(v))))

\* r: a raw reference record (a value).  The scan over the other keys of a
\* nutriments mapping whose name holds 'kcal' or 'energy' follows the
\* specific keys.
extract_calorie_from_record(r) ==
    LET \* The first key of `keys` that is in `dct` and whose value float()
        \* accepts (`try: return float(dct[k]) except: pass` goes on to the
        \* next key); None if there is none.
        RECURSIVE FirstFloat(_, _)
        FirstFloat(dct, keys) ==
            IF keys = <<>> THEN NoneV
            ELSE OrElse(IF Head(keys) \in DOMAIN dct
                        THEN FloatOrNone(ToFloat(dct[Head(keys)])) ELSE NoneV,
                        FirstFloat(dct, Tail(keys)))
        Macros(d) == Or(Or(Get(d, "macros"), Get(d, "macro")), DictV(NoDict))
        MacrosKcal(macros) ==
            IF IsDict(macros) THEN FirstFloat(macros.d, <<"kcal">>) ELSE NoneV
        Nutriments(nutr) ==
            IF IsDict(nutr)
            THEN FirstFloat(nutr.d,
                    <<"energy-kcal_serving", "energy-kcal", "energy-kcal_100g",
                      "energy_100g", "kcal", "energy-kj", "energy-kcal_value">>)
            ELSE NoneV
        CalorieIn(d) ==
            OrElse(FirstFloat(d, <<"calories", "energy_kcal", "energy_kcal_100g",
                                   "calorie", "energy", "kcal">>),
                   OrElse(MacrosKcal(Macros(d)),
                          OrElse(Nutriments(Get(d, "nutriments")),
                                 Nutriments(Get(d, "nutrients")))))
    IN  IF ~IsDict(r) THEN NoneV ELSE CalorieIn(r.d)

\* file: the corpus file.  ok = FALSE: r.get raised on a row that is no
\* mapping.  The 'raw' field of a db entry, which nothing reads, is left out.
load_nutrition_db(file) ==
    LET \* for v in j.values(): a list extends the rows, a mapping is
        \* appended.  keys: the top-level keys of the corpus, in file order.
        RECURSIVE FlattenCorpus(_, _)
        FlattenCorpus(dct, keys) ==
            IF keys = <<>> THEN <<>>
            ELSE (IF Head(keys) \notin DOMAIN dct THEN <<>>
                  ELSE IF dct[Head(keys)].t = "list" THEN dct[Head(keys)].d
                  ELSE IF dct[Head(keys)].t = "dict" THEN <<dct[Head(keys)]>>
                  ELSE <<>>)
                    \o FlattenCorpus(dct, Tail(keys))
        CorpusRows(j) ==
            IF j.t = "dict" THEN FlattenCorpus(j.d, <<"foods", "items", "meta">>)
            ELSE IF j.t = "list" THEN j.d
            ELSE <<>>
        RefName(d) ==
            Or(Or(Or(Or(Or(Get(d, "name"), Get(d, "food")), Get(d, "title")),
                     Get(d, "product_name")), Get(d, "item")), EmptyStr)
        DbEntry(r) ==
            [name |-> normalize(RefName(r.d)), calories |-> extract_calorie_from_record(r)]
        DbOf(rows) ==
            IF \E i \in 1..Len(rows) : ~IsDict(rows[i])
            THEN [ok |-> FALSE, db |-> <<>>]
            ELSE [ok |-> TRUE, db |-> [i \in 1..Len(rows) |-> DbEntry(rows[i])]]
    IN  IF ~file.exists THEN [ok |-> TRUE, db |-> <<>>] ELSE DbOf(CorpusRows(file.data))

\* The titles and reference names the scores are tabulated for.
Titles ==
    [cb |-> <<"c", "b">>,
     cbs |-> <<"c", "b", " ", "s">>,
     cbm |-> <<"c", "b", "m">>,
     cbh |-> <<"c", "b", "h">>,
     cbl |-> <<"c", "b", "l">>,
     dal |-> <<"d", "a", "l">>,
     zz |-> <<"z", "z">>]

\* fuzz.WRatio of rapidfuzz, a library: its scores are tabulated.  Equal
\* strings score 100, an empty string scores 0, and the table puts a pair on
\* each side of both thresholds.
WRatioTable ==
    << <<Titles.cbs, Titles.cb, 90>>, <<Titles.cbh, Titles.cb, 89>>,
       <<Titles.cbm, Titles.cb, 75>>, <<Titles.cbl, Titles.cb, 74>>,
       <<Titles.cbs, Titles.cbm, 80>>, <<Titles.cbl, Titles.dal, 30>> >>

WRatio(a, b) ==
    LET Tabulated(entries) ==
            IF entries = {} THEN 0 ELSE WRatioTable[CHOOSE i \in entries : TRUE][3]
    IN  IF a = <<>> \/ b = <<>> THEN 0
        ELSE IF a = b THEN 100
        ELSE Tabulated({i \in 1..Len(WRatioTable) :
                           WRatioTable[i][1] = a /\ WRatioTable[i][2] = b})

\* process.extractOne(title, names, scorer=fuzz.WRatio): the first name of
\* the best score; (None, 0) when there is no name.
best_match(title, names) ==
    LET FirstBest(scores) ==
            CHOOSE i \in 1..Len(names) :
                /\ \A j \in 1..Len(names) : scores[j] <= scores[i]
                /\ \A j \in 1..(i - 1) : scores[j] < scores[i]
        Scored(scores, i) == [name |-> StrV(names[i]), score |-> scores[i]]
        ExtractOne(scores) == Scored(scores, FirstBest(scores))
    IN  IF names = <<>> THEN [name |-> NoneV, score |-> 0]
        ELSE ExtractOne([j \in 1..Len(names) |-> WRatio(title, names[j])])

\* [v.strip().lower() for v in vendors.split(',')]
VendorFilter(vendors) ==
    LET \* s.split(',')
        RECURSIVE SplitComma(_)
        SplitComma(s) ==
            IF \A i \in 1..Len(s) : s[i] # "," THEN <<s>>
            ELSE IF Head(s) = "," THEN <<<<>>>> \o SplitComma(Tail(s))
            ELSE [SplitComma(Tail(s)) EXCEPT ![1] = <<Head(s)>> \o @]
        FilterOf(parts) == {Lower(Strip(parts[i])) : i \in 1..Len(parts)}
    IN  FilterOf(SplitComma(vendors.s))

\* A plausible slip: rows that already have calories are matched too.
SelectedAny(row, vendors) ==
    Truthy(vendors) => Lower(row.vendor_name) \in VendorFilter(vendors)

\* The rows impute() loops over: calories null, and the vendor in the
\* filter when one is given (`if vendors:`).
Selected(row, vendors) ==
    /\ IsNull(row.calories)
    /\ (Truthy(vendors) => Lower(row.vendor_name) \in VendorFilter(vendors))

\* A row the loop leaves alone.
Undecided == [hit |-> FALSE, cal |-> NoneV, name |-> NoneV, score |-> 0]

\* What the loop body of impute() decides for one selected row: the
\* calories of the first db entry named match_name, looked up only for an
\* accepted score, and `if chosen_cal is not None and score >= MED_THRESH`.
MatchOf(row, db) ==
    LET FirstNamed(name) ==
            CHOOSE i \in 1..Len(db) :
                db[i].name = name /\ \A j \in 1..(i - 1) : db[j].name # name
        ChosenCal(m) ==
            IF Truthy(m.name) /\ m.score >= MED_THRESH
            THEN db[FirstNamed(m.name.s)].calories
            ELSE NoneV
        Decided(m, chosen_cal) ==
            [hit |-> ~IsNull(chosen_cal) /\ m.score >= MED_THRESH,
             cal |-> chosen_cal, name |-> m.name, score |-> m.score]
        Decide(m) == Decided(m, ChosenCal(m))
        MatchTitle(title) ==
            IF title = <<>> THEN Undecided
            ELSE Decide(best_match(title, [i \in 1..Len(db) |-> db[i].name]))
    IN  MatchTitle(normalize(Or(Or(row.title, row.item_id), EmptyStr)))

LOCAL_SOURCE == StrV(<<"local_indian_nutrition">>)
MODEL_SOURCE == StrV(<<"model_regressor">>)

\* A plausible slip: the row is flagged imputed without a source.
AcceptNoSource(row, m) ==
    [row EXCEPT !.calories = m.cal,
                !.calories_imputed = BoolV(TRUE),
                !.calories_confidence = IF m.score >= HIGH_THRESH THEN FltV(9) ELSE FltV(6),
                !.local_match_score = FltV(10 * m.score),
                !.local_match_name = m.name]

\* A plausible slip: every accepted match gets the lower confidence.
AcceptLowConfidence(row, m) ==
    [row EXCEPT !.calories = m.cal,
                !.calories_imputed = BoolV(TRUE),
                !.calories_confidence = FltV(6),
                !.calories_source = LOCAL_SOURCE,
                !.local_match_score = FltV(10 * m.score),
                !.local_match_name = m.name]

\* The df.at[...] assignments of an accepted match.
Accept(row, m) ==
    [row EXCEPT !.calories = m.cal,
                !.calories_imputed = BoolV(TRUE),
                !.calories_confidence = IF m.score >= HIGH_THRESH THEN FltV(9) ELSE FltV(6),
                !.calories_source = LOCAL_SOURCE,
                !.local_match_score = FltV(10 * m.score),
                !.local_match_name = m.name]

\* impute(df, db, vendors): the table, the number imputed, the mean score
\* (float(sum(scores)/len(scores)) if scores else 0.0).  ms: what the loop
\* decides for each row.
impute(df, db, vendors) ==
    LET RECURSIVE HitScores(_)
        HitScores(ms) ==
            IF ms = <<>> THEN <<>>
            ELSE (IF Head(ms).hit THEN <<Head(ms).score>> ELSE <<>>)
                    \o HitScores(Tail(ms))
        AvgScore(scores) ==
            IF scores = <<>> THEN Rat(0, 1) ELSE Rat(SeqSum(scores), Len(scores))
        Imputed(ms, scores) ==
            [df |-> [i \in 1..Len(df) |-> IF ms[i].hit THEN Accept(df[i], ms[i]) ELSE df[i]],
             imputed |-> Len(scores),
             avg_score |-> AvgScore(scores)]
        ImputeBy(ms) == Imputed(ms, HitScores(ms))
    IN  ImputeBy([i \in 1..Len(df) |->
                    IF Selected(df[i], vendors) THEN MatchOf(df[i], db) ELSE Undecided])

(***************************************************************************)
(* Text-regression imputer (impute_with_model.py)                          *)
(***************************************************************************)
\* One entry of build_text_for_df: title, vendor name and description, each
\* as str(x or '') + ' '.
BuildText(r) ==
    LET Part(x) == (IF Truthy(x) THEN Str(x) ELSE <<>>) \o <<" ">>
    IN  Strip(Part(r.title) \o Part(StrV(r.vendor_name))
                \o (IF IsNull(r.description) THEN <<>> ELSE Part(r.description)))

\* model.predict(vect.transform(texts)): the fitted artifacts are held as a
\* pair of weights w, and the prediction is a fixed function of the text and
\* of w (a float in tenths).
Predict(w, text) == FltV(w.base + w.per_char * Len(text))

\* A plausible slip: the mask takes every row.
ModelMaskAll(row) == TRUE

\* mask = df['calories'].isnull()
ModelMask(row) == IsNull(row.calories)

\* The df.loc[mask, ...] assignments on one row.
ModelImputeRow(row, w) ==
    LET ModelAssign(pred) ==
            [row EXCEPT !.model_pred_calories = pred,
                        !.calories = pred,
                        !.calories_imputed_model = BoolV(TRUE),
                        !.calories_source = MODEL_SOURCE,
                        !.calories_confidence = FltV(7)]
    IN  IF ModelMask(row) THEN ModelAssign(Predict(w, BuildText(row))) ELSE row

(***************************************************************************)
(* The data directory                                                      *)
(***************************************************************************)
Absent == [exists |-> FALSE, data |-> <<>>]
File(x) == [exists |-> TRUE, data |-> x]

\* A database file holding the table vendor_aggregates with columns cols.
Table(cols, rows) == [exists |-> TRUE, data |-> rows, columns |-> cols]

\* `if c not in df.columns: df[c] = None`
WithColumns(row, cols) == row @@ [c \in cols |-> NoneV]

FuzzyColumns ==
    {"calories_imputed", "calories_confidence", "calories_source",
     "local_match_score", "local_match_name"}

ModelColumns ==
    {"calories_imputed_model", "calories_source", "calories_confidence",
     "model_pred_calories"}

\* metrics.update({key: sub})
DictUpdate(m, key, sub) ==
    [k \in DOMAIN m \cup {key} |-> IF k = key THEN sub ELSE m[k]]

VARIABLES
    vendor_menus_json,    \* data/vendor_menus.json
    partner_menus_json,   \* data/partner_menus.json
    nutrition_json,       \* data/indian_foods_nutrition.json
    train_csv,            \* data/train_labels_highconf.csv
    items_parquet,        \* data/items.parquet
    items_csv,            \* data/items.csv
    agg_parquet,          \* data/vendor_aggregates.parquet
    agg_csv,              \* data/vendor_aggregates.csv
    output_db,            \* data/output.db, table vendor_aggregates
    metrics_json,         \* data/metrics.json
    aggregates_csv,       \* data/aggregates.csv
    local_csv,            \* data/items_enriched_local.csv
    local_parquet,        \* data/items_enriched_local.parquet
    model_csv,            \* data/items_enriched_model.csv
    model_parquet,        \* data/items_enriched_model.parquet
    vect_file,            \* models/tfidf_vectorizer.joblib
    model_file,           \* models/ridge_regressor.joblib
    last,                 \* the last stage run, its arguments and how it ended
    nx,                   \* the argument of a function applied on its own
    ny                    \* what the function made of it, in turn

inputs == <<vendor_menus_json, partner_menus_json, nutrition_json, train_csv>>
etl_out == <<items_parquet, items_csv, agg_parquet, agg_csv, output_db>>
local_out == <<local_csv, local_parquet>>
model_out == <<model_csv, model_parquet>>
artifacts == <<vect_file, model_file>>
basic_out == <<aggregates_csv>>
scratch == <<nx, ny>>
vars == <<inputs, etl_out, metrics_json, local_out, model_out, artifacts, basic_out, last,
          scratch>>

\* How a stage run ended: status is the process exit status (1 for an
\* uncaught exception), how says where it stopped, argv is the --vendors
\* argument of the fuzzy stage (None elsewhere).
Ended(stage, status, how, argv) ==
    [stage |-> stage, status |-> status, how |-> how, argv |-> argv]

\* pd.read_parquet(DATA_PARQUET), and the columns a stage makes sure of.
ReadItems(cols) ==
    [i \in 1..Len(items_parquet.data) |-> WithColumns(items_parquet.data[i], cols)]

\* json.loads(METRICS.read_text()) if the file exists, else {}
ReadMetrics == IF metrics_json.exists THEN metrics_json.data ELSE <<>>

(***************************************************************************)
(* etl_advanced.py main()                                                  *)
(***************************************************************************)
\* load_json: [] when the file is missing.
load_json(file) == IF file.exists THEN file.data ELSE <<>>

\* pqItems, pqAgg: whether the parquet write of the item table, of the
\* aggregate table, raises.  Neither call is guarded, so a raise ends the
\* run where it happens.  The metrics file is written anew from the item
\* table.
EtlMain(pqItems, pqAgg) ==
    LET EtlStops(status, how) ==
            /\ last' = Ended("etl", status, how, NoneV)
            /\ UNCHANGED <<etl_out, metrics_json>>
        \* Lines 221-243.
        EtlWrite(items, metrics, agg) ==
            /\ items_parquet' = File(items)
            /\ items_csv' = File(items)
            /\ metrics_json' = File(metrics)
            /\ IF pqAgg
               THEN /\ last' = Ended("etl", 1, "agg_parquet_raised", NoneV)
                    /\ UNCHANGED <<agg_parquet, agg_csv, output_db>>
               ELSE /\ agg_parquet' = File(agg)
                    /\ agg_csv' = File(agg)
                    \* to_sql(..., if_exists='replace'): the table is dropped and
                    \* made anew with the columns of the frame.
                    /\ output_db' = Table(UNION {DOMAIN r : r \in agg}, agg)
                    /\ last' = Ended("etl", 0, "done", NoneV)
        \* Lines 207-221.
        EtlItems(items) ==
            IF items = <<>> THEN EtlStops(0, "no_items")
            ELSE IF pqItems THEN EtlStops(1, "items_parquet_raised")
            ELSE EtlWrite(items, compute_metrics(items), compute_vendor_aggregates(items))
        \* Lines 203-205.
        EtlRun(fv, fp) ==
            IF ~fv.ok \/ ~fp.ok THEN EtlStops(1, "raised")
            ELSE EtlItems(fv.rows \o fp.rows)
    IN  /\ UNCHANGED <<inputs, local_out, model_out, artifacts, basic_out, scratch>>
        /\ EtlRun(from_vendor_menus(load_json(vendor_menus_json)),
                  from_partner_menus(load_json(partner_menus_json)))

(***************************************************************************)
(* local_fuzzy_impute.py main()                                            *)
(***************************************************************************)
\* int(df['calories'].isnull().sum())
Missing(df) == Cardinality({i \in 1..Len(df) : IsNull(df[i].calories)})

\* vendors: the --vendors argument (None or a str); pq: the parquet write
\* raises, which is caught.
FuzzyMain(vendors, pq) ==
    LET FuzzyStops(status, how) ==
            /\ last' = Ended("fuzzy", status, how, vendors)
            /\ UNCHANGED <<local_out, metrics_json>>
        FuzzyMetrics(res, before, after) ==
            [imputed |-> res.imputed,
             avg_score |-> res.avg_score,
             before_missing |-> before,
             after_missing |-> after,
             vendors_filtered |-> IF Truthy(vendors) THEN vendors.s ELSE <<"A", "L", "L">>]
        \* Lines 157-178.
        FuzzyWrite(res, before) ==
            /\ local_csv' = File(res.df)
            /\ local_parquet' = IF pq THEN local_parquet ELSE File(res.df)
            /\ metrics_json' =
                  File(DictUpdate(ReadMetrics, "local_fuzzy_impute",
                                  FuzzyMetrics(res, before, Missing(res.df))))
            /\ last' = Ended("fuzzy", 0, "done", vendors)
        \* Lines 144-152.
        FuzzyImpute(df, db) == FuzzyWrite(impute(df, db, vendors), Missing(df))
        \* Lines 138-141.
        FuzzyRun(loaded) ==
            IF ~loaded.ok THEN FuzzyStops(1, "raised")
            ELSE IF loaded.db = <<>> THEN FuzzyStops(0, "no_db")
            ELSE FuzzyImpute(ReadItems(FuzzyColumns), loaded.db)
    IN  /\ UNCHANGED <<inputs, etl_out, model_out, artifacts, basic_out, scratch>>
        /\ IF ~items_parquet.exists THEN FuzzyStops(0, "no_items_table")
           ELSE FuzzyRun(load_nutrition_db(nutrition_json))

(***************************************************************************)
(* impute_with_model.py main()                                             *)
(***************************************************************************)
\* A plausible slip: only the regressor is looked for.
ArtifactsMissingModelOnly == ~model_file.exists

\* `not VECT_FILE.exists() or not MODEL_FILE.exists()`
ArtifactsMissing == ~vect_file.exists \/ ~model_file.exists

\* pq: the parquet write raises, which is caught.
ModelMain(pq) ==
    LET ModelStops(how) ==
            /\ last' = Ended("model", 0, how, NoneV)
            /\ UNCHANGED <<model_out, metrics_json>>
        ModelMetrics(df) ==
            [imputed_count |-> Cardinality({i \in 1..Len(df) : ModelMask(df[i])}),
             calories_source |-> MODEL_SOURCE.s]
        \* Lines 65-84.
        ModelWrite(out, metrics) ==
            /\ model_csv' = File(out)
            /\ model_parquet' = IF pq THEN model_parquet ELSE File(out)
            /\ metrics_json' = File(DictUpdate(ReadMetrics, "model_impute", metrics))
            /\ last' = Ended("model", 0, "done", NoneV)
        \* Lines 41-62; w: the weights joblib.load gives.
        ModelImpute(df, w) ==
            ModelWrite([i \in 1..Len(df) |-> ModelImputeRow(df[i], w)], ModelMetrics(df))
    IN  /\ UNCHANGED <<inputs, etl_out, local_out, artifacts, basic_out, scratch>>
        /\ IF ~items_parquet.exists THEN ModelStops("no_items_table")
           ELSE IF ArtifactsMissing THEN ModelStops("no_artifacts")
           ELSE ModelImpute(ReadItems(ModelColumns), model_file.data)

(***************************************************************************)
(* train_text_regressor.py main()                                          *)
(***************************************************************************)
CV_FOLDS == 5

\* df.dropna(subset=['calories']): the labelled rows (the file holds the
\* calories cell of each row).
Labelled(rows) == SelectSeq(rows, LAMBDA c : ~IsNull(c))

\* train_test_split(test_size=0.2): the test part is ceil(0.2 * n).
TrainPart(n) == n - ((2 * n + 9) \div 10)

\* What a fit can give: the alpha RidgeCV chose among its candidates (in
\* tenths), the weights, and the two test errors (in tenths).
Fits ==
    {[alpha |-> 10, w |-> [base |-> 2000, per_char |-> 10], mae |-> 350, rmse |-> 420],
     [alpha |-> 1000, w |-> [base |-> 3000, per_char |-> 0], mae |-> 500, rmse |-> 610]}

TrainMain(fit) ==
    LET TrainStops(status, how) ==
            /\ last' = Ended("train", status, how, NoneV)
            /\ UNCHANGED <<artifacts, metrics_json>>
        TrainMetrics(n) ==
            [n_train |-> n, alpha |-> fit.alpha, test_mae |-> fit.mae, test_rmse |-> fit.rmse]
        \* n: the number of labelled rows.
        TrainFit(n) ==
            IF n = 0 THEN TrainStops(0, "no_labels")
            ELSE IF TrainPart(n) < CV_FOLDS THEN TrainStops(1, "raised")
            ELSE /\ vect_file' = File(<<"tfidf">>)
                 /\ model_file' = File(fit.w)
                 /\ metrics_json' =
                       File(DictUpdate(ReadMetrics, "text_regressor", TrainMetrics(n)))
                 /\ last' = Ended("train", 0, "done", NoneV)
    IN  /\ UNCHANGED <<inputs, etl_out, local_out, model_out, basic_out, scratch>>
        /\ IF ~train_csv.exists THEN TrainStops(0, "no_train_csv")
           ELSE TrainFit(Len(Labelled(train_csv.data)))

(***************************************************************************)
(* etl.py                                                                  *)
(***************************************************************************)
BasicColumns == {"vendor", "item_count", "sum_price", "sum_protein_g", "avg_calories"}

\* The vendor objects made of a flat partner list, one for each hotel in
\* the order of its first item; ok = FALSE: it.get raised on an item that
\* is no mapping.
normalize_partner_items(partner_items) ==
    LET hotel(it) ==
            Or(Or(Or(Get(it, "hotel"), Get(it, "vendor")), Get(it, "hotelName")),
               StrV(<<"U", "N", "K", "N", "O", "W", "N">>))
        \* Lines 37-47: int(price), else int(float(price)), else 0.
        Price(price) ==
            IF IsNull(price) \/ IsEmptyStr(price) THEN IntV(0)
            ELSE OrElse(IntOrNone(ToFloat(price)), IntV(0))
        \* Lines 53-59: the top-level nutrition keys float() accepts.
        Gathered(it) ==
            [k \in {c \in {"calories", "protein", "fat", "carbs"} :
                        c \in DOMAIN it /\ ToFloat(it[c]).ok}
                |-> FltV(ToFloat(it[k]).n)]
        Nutrition(it) ==
            IF IsDict(Get(it, "nutrition")) THEN Get(it, "nutrition")
            ELSE DictV(Gathered(it))
        Keys(it) ==
            {"id", "title", "price"}
                \cup (IF Truthy(Nutrition(it)) \/ IsDict(Get(it, "nutrition"))
                      THEN {"nutrition"} ELSE {})
                \cup ({"description", "tags"} \cap DOMAIN it)
        Item(it) ==
            DictV([k \in Keys(it) |->
                CASE k = "id" -> Or(Or(Or(Get(it, "id"), Get(it, "item_id")), Get(it, "sku")), NoneV)
                  [] k = "title" -> Or(Or(Or(Get(it, "title"), Get(it, "name")), Get(it, "dish")), NoneV)
                  [] k = "price" -> Price(Get(it, "price"))
                  [] k = "nutrition" -> Nutrition(it)
                  [] OTHER -> it[k]])
        \* The hotels in the order of their first item.
        RECURSIVE Hotels(_)
        Hotels(its) ==
            IF its = <<>> THEN <<>>
            ELSE <<hotel(Head(its).d)>>
                    \o SelectSeq(Hotels(Tail(its)), LAMBDA h : h # hotel(Head(its).d))
        RECURSIVE ItemsOfHotel(_, _)
        ItemsOfHotel(its, h) ==
            IF its = <<>> THEN <<>>
            ELSE (IF hotel(Head(its).d) = h THEN <<Item(Head(its).d)>> ELSE <<>>)
                    \o ItemsOfHotel(Tail(its), h)
        Vendors(hs) ==
            [i \in 1..Len(hs) |->
                DictV([vendorName |-> hs[i],
                       items |-> ListV(ItemsOfHotel(partner_items, hs[i]))])]
    IN  IF \E i \in 1..Len(partner_items) : ~IsDict(partner_items[i])
        THEN [ok |-> FALSE, vendors |-> <<>>]
        ELSE [ok |-> TRUE, vendors |-> Vendors(Hotels(partner_items))]

\* Lines 141-152: the vendor objects keyed by name, then the partner
\* vendors appended to the vendor of their name or added after the others;
\* the values of the dict in the order its keys were first set.  A vendor
\* object without a name is not kept, and a later object of a name takes
\* the place of an earlier one.  ok = FALSE: v.get raised on a vendor
\* object that is no mapping.  The feeds hold a list under `items`, or
\* nothing.
MergeVendors(vendor_menus, partner_vendors) ==
    LET name(v) == Or(Or(Get(v, "vendorName"), Get(v, "hotel")), NoneV)
        Named(v, its) == DictV([vendorName |-> name(v.d), items |-> ListV(its)])
        Index(merged, n) ==
            IF \E i \in 1..Len(merged) : merged[i].d.vendorName = n
            THEN CHOOSE i \in 1..Len(merged) : merged[i].d.vendorName = n
            ELSE 0
        Set(merged, n, v) ==
            IF Index(merged, n) = 0 THEN Append(merged, v)
            ELSE [merged EXCEPT ![Index(merged, n)] = v]
        RECURSIVE FromVendors(_, _)
        FromVendors(merged, vs) ==
            IF vs = <<>> THEN merged
            ELSE FromVendors(
                    IF Truthy(name(Head(vs).d))
                    THEN Set(merged, name(Head(vs).d),
                             Named(Head(vs), Or(Get(Head(vs).d, "items"), ListV(<<>>)).d))
                    ELSE merged,
                    Tail(vs))
        Extend(v, pv) == Named(v, v.d.items.d \o Or(Get(pv.d, "items"), ListV(<<>>)).d)
        RECURSIVE FromPartners(_, _)
        FromPartners(merged, pvs) ==
            IF pvs = <<>> THEN merged
            ELSE FromPartners(
                    IF Index(merged, Head(pvs).d.vendorName) # 0
                    THEN [merged EXCEPT ![Index(merged, Head(pvs).d.vendorName)] =
                              Extend(@, Head(pvs))]
                    ELSE Append(merged, Head(pvs)),
                    Tail(pvs))
    IN  IF \E i \in 1..Len(vendor_menus) : ~IsDict(vendor_menus[i])
        THEN [ok |-> FALSE, vendors |-> <<>>]
        ELSE [ok |-> TRUE,
              vendors |-> FromPartners(FromVendors(<<>>, vendor_menus), partner_vendors)]

\* aggregate(vendor_menus): one row (vendor, item_count, sum_price,
\* sum_protein_g, avg_calories) for each vendor object, in order; the two
\* reals are in tenths.  ok = FALSE: an uncaught exception (a vendor object
\* or an item that is no mapping, an `items` that is no list, a nutrition
\* that is no mapping, calories or protein float() does not accept).
aggregate(vendor_menus) ==
    LET vendor(v) ==
            Or(Or(Get(v, "vendorName"), Get(v, "hotel")),
               StrV(<<"U", "N", "K", "N", "O", "W", "N">>))
        items(v) == Or(Get(v, "items"), ListV(<<>>))
        nutrition(it) == Or(Get(it, "nutrition"), DictV(NoDict))
        Macro(it, k) == ToFloat(Or(Get(nutrition(it).d, k), IntV(0)))
        \* try: float(it.get("price") or 0) except: 0
        Price(it) ==
            IF ToFloat(Or(Get(it, "price"), IntV(0))).ok
            THEN ToFloat(Or(Get(it, "price"), IntV(0))).n ELSE 0
        ItemRaises(it) ==
            \/ ~IsDict(it)
            \/ ~IsDict(nutrition(it.d))
            \/ ~Macro(it.d, "calories").ok
            \/ ~Macro(it.d, "protein").ok
        Raises(v) ==
            \/ ~IsDict(v)
            \/ items(v.d).t # "list"
            \/ \E i \in 1..Len(items(v.d).d) : ItemRaises(items(v.d).d[i])
        Trunc(n) == IF n >= 0 THEN n \div 10 ELSE -((-n) \div 10)
        \* round(total / count, 1), in tenths; no quotient of the inputs
        \* lies half-way between two tenths.
        Round1(total, count) == (2 * total + count) \div (2 * count)
        Row(name, its) ==
            IF its = <<>>
            THEN [vendor |-> name, item_count |-> 0, sum_price |-> 0,
                  sum_protein_g |-> 0, avg_calories |-> 0]
            ELSE [vendor |-> name,
                  item_count |-> Len(its),
                  sum_price |-> Trunc(SeqSum([i \in 1..Len(its) |-> Price(its[i].d)])),
                  sum_protein_g |-> SeqSum([i \in 1..Len(its) |-> Macro(its[i].d, "protein").n]),
                  avg_calories |->
                      Round1(SeqSum([i \in 1..Len(its) |-> Macro(its[i].d, "calories").n]),
                             Len(its))]
    IN  IF \E i \in 1..Len(vendor_menus) : Raises(vendor_menus[i])
        THEN [ok |-> FALSE, rows |-> <<>>]
        ELSE [ok |-> TRUE,
              rows |-> [i \in 1..Len(vendor_menus) |->
                           Row(vendor(vendor_menus[i].d), items(vendor_menus[i].d).d)]]

\* A plausible slip: the rows are added to those the table holds.
write_sqlite_append(rows, db) ==
    Table(BasicColumns, (IF db.exists THEN db.data ELSE <<>>) \o rows)

\* write_sqlite when the table is missing or has the five columns: DELETE
\* FROM vendor_aggregates, then the INSERT of every row.
write_sqlite(rows, db) == Table(BasicColumns, rows)

\* main() of etl.py.  write_csv comes before write_sqlite, whose INSERT of
\* five values raises on a table vendor_aggregates of other columns (CREATE
\* TABLE IF NOT EXISTS leaves such a table as it is); the DELETE before it is
\* then never committed.
BasicMain ==
    LET Stops(how) ==
            /\ last' = Ended("basic_etl", 1, how, NoneV)
            /\ UNCHANGED <<output_db, aggregates_csv>>
        \* Lines 163-167.
        Write(agg) ==
            IF ~agg.ok THEN Stops("raised")
            ELSE /\ aggregates_csv' = File(agg.rows)
                 /\ IF output_db.exists /\ output_db.columns # BasicColumns
                    THEN /\ last' = Ended("basic_etl", 1, "insert_raised", NoneV)
                         /\ UNCHANGED output_db
                    ELSE /\ output_db' = write_sqlite(agg.rows, output_db)
                         /\ last' = Ended("basic_etl", 0, "done", NoneV)
        \* Lines 159-161.
        Aggregate(vendor_menus) ==
            IF vendor_menus = <<>> THEN Stops("no_vendor_data")
            ELSE Write(aggregate(vendor_menus))
        \* Lines 135-157: an exception leaves vendor_menus as it was loaded.
        Merge(vendor_menus, pv) ==
            IF pv.ok /\ MergeVendors(vendor_menus, pv.vendors).ok
            THEN Aggregate(MergeVendors(vendor_menus, pv.vendors).vendors)
            ELSE Aggregate(vendor_menus)
        Run(vendor_menus, partner_items) ==
            IF partner_items # <<>>
            THEN Merge(vendor_menus, normalize_partner_items(partner_items))
            ELSE Aggregate(vendor_menus)
    IN  /\ UNCHANGED <<inputs, items_parquet, items_csv, agg_parquet, agg_csv,
                       metrics_json, local_out, model_out, artifacts, scratch>>
        /\ Run(load_json(vendor_menus_json), load_json(partner_menus_json))

(***************************************************************************)
(* app.py: the two queries on vendor_aggregates                            *)
(***************************************************************************)
\* One query: nx is the vendor name asked for (None for the list of all
\* vendors), ny the rows of the response, last.status the HTTP status.  A
\* missing output.db is answered 500, and so is the sqlite3.OperationalError
\* of a SELECT that names a column the table does not have.
Query(stage, name) ==
    LET Answer(status, how, rows) ==
            /\ last' = Ended(stage, status, how, NoneV)
            /\ nx' = name
            /\ ny' = rows
        Matching(rows) ==
            IF IsNull(name) THEN rows ELSE SelectSeq(rows, LAMBDA r : r.vendor = name)
        \* cur.fetchall(), or cur.fetchone() and the 404 of no row.
        Fetch(rows) ==
            IF IsNull(name) THEN Answer(200, "rows", rows)
            ELSE IF rows = <<>> THEN Answer(404, "vendor_not_found", <<>>)
            ELSE Answer(200, "row", <<Head(rows)>>)
    IN  /\ UNCHANGED <<inputs, etl_out, metrics_json, local_out, model_out, artifacts,
                       basic_out>>
        /\ IF ~output_db.exists THEN Answer(500, "no_db", <<>>)
           ELSE IF ~(BasicColumns \subseteq output_db.columns)
                THEN Answer(500, "no_such_column", <<>>)
                ELSE Fetch(Matching(output_db.data))

list_vendors == Query("list_vendors", NoneV)

vendor_detail(vendor_name) == Query("vendor_detail", vendor_name)

(***************************************************************************)
(* Inputs of the pipeline specification                                    *)
(***************************************************************************)
Names ==
    [A_Menus |-> StrV(<<"A", " ", "M", "e", "n", "u", "s">>),
     a |-> StrV(<<"a">>),
     b |-> StrV(<<"b">>)]

\* Raw items: with calories, and without under the titles of WRatioTable.
Items ==
    [known |-> DictV([id |-> IntV(1), title |-> StrV(Titles.cbs),
                      price |-> StrV(<<"1", "5", "0">>),
                      nutrition |-> DictV([calories |-> IntV(300)])]),
     high |-> DictV([title |-> StrV(<<"C", "b", " ", " ", "S">>)]),
     exact |-> DictV([title |-> StrV(Titles.cb), description |-> StrV(<<"h", "o", "t">>)]),
     med |-> DictV([title |-> StrV(Titles.cbm)]),
     s89 |-> DictV([title |-> StrV(Titles.cbh)]),
     low |-> DictV([title |-> StrV(Titles.cbl)]),
     nocal |-> DictV([title |-> StrV(Titles.dal)]),
     none |-> DictV([title |-> StrV(Titles.zz)]),
     blank |-> DictV([id |-> StrV(<<" ">>), title |-> StrV(<<" ">>)]),
     untitled |-> DictV([id |-> StrV(Titles.cb)])]

VendorObject(name, its) == DictV([vendorName |-> name, items |-> ListV(its)])

Partner(it, name) == DictV(it.d @@ [hotel |-> name])

Ref(name, cal) == DictV([name |-> name, calories |-> cal])

RECURSIVE Rep(_, _)
Rep(x, n) == IF n = 0 THEN <<>> ELSE <<x>> \o Rep(x, n - 1)

\* One full directory of inputs.  The corpus is a flat list whose second
\* record has no usable calories.
BaseInputs ==
    [vm |-> File(<<VendorObject(Names.A_Menus,
                                <<Items.known, Items.high, Items.med, Items.low>>)>>),
     pm |-> File(<<Partner(Items.exact, Names.a), Partner(Items.s89, Names.b),
                   Partner(Items.blank, Names.b)>>),
     nj |-> File(ListV(<<Ref(StrV(<<"C", "B">>), IntV(450)),
                         DictV([food |-> StrV(Titles.dal),
                                macros |-> DictV([kcal |-> NoneV])]),
                         Ref(StrV(Titles.dal), IntV(120))>>)),
     tc |-> File(Rep(FltV(3000), 7) \o <<NoneV>>),
     vf |-> Absent,
     mf |-> Absent]

PipelineVendorFeeds ==
    {Absent,
     BaseInputs.vm,
     File(<<VendorObject(Names.b, <<Items.nocal, Items.none, Items.untitled>>)>>),
     \* an item that is no mapping
     File(<<VendorObject(Names.b, <<StrV(Titles.zz)>>)>>)}

PipelinePartnerFeeds == {Absent, BaseInputs.pm}

PipelineCorpora ==
    {Absent,
     BaseInputs.nj,
     \* a mapping of lists and mappings
     File(DictV([foods |-> ListV(<<Ref(StrV(Titles.cbm), StrV(<<"2", "6", "0">>)),
                                   Ref(StrV(Titles.cb), IntV(450))>>),
                 meta |-> DictV([version |-> IntV(1)])])),
     \* a row that is no mapping
     File(ListV(<<Ref(StrV(Titles.cb), IntV(450)), StrV(Titles.dal)>>))}

PipelineTrainSets ==
    {Absent, BaseInputs.tc, File(Rep(FltV(3000), 3)), File(<<NoneV, NoneV>>)}

VendorsArgs == {NoneV, StrV(<<"X", ",", " ", "a">>)}

\* The start states: the full directory; the training set varied over its
\* family; and, without a training set, each other input varied in turn
\* over its family, and either artifact left behind alone.
Scenarios ==
    LET Untrained(f) == [f EXCEPT !.tc = Absent]
        Varied(u) ==
            {[u EXCEPT !.vm = f] : f \in PipelineVendorFeeds}
            \cup {[u EXCEPT !.pm = f] : f \in PipelinePartnerFeeds}
            \cup {[u EXCEPT !.vm = Absent, !.pm = Absent]}
            \cup {[u EXCEPT !.nj = f] : f \in PipelineCorpora}
            \cup {[u EXCEPT !.vf = File(<<"tfidf">>)],
                  [u EXCEPT !.mf = File([base |-> 2000, per_char |-> 10])]}
    IN  {[BaseInputs EXCEPT !.tc = f] : f \in PipelineTrainSets}
        \cup Varied(Untrained(BaseInputs))

NoOutputs ==
    /\ items_parquet = Absent /\ items_csv = Absent
    /\ agg_parquet = Absent /\ agg_csv = Absent /\ output_db = Absent
    /\ metrics_json = Absent /\ aggregates_csv = Absent
    /\ local_csv = Absent /\ local_parquet = Absent
    /\ model_csv = Absent /\ model_parquet = Absent
    /\ last = Ended("none", 0, "init", NoneV)

Init ==
    /\ \E sc \in Scenarios :
          /\ vendor_menus_json = sc.vm
          /\ partner_menus_json = sc.pm
          /\ nutrition_json = sc.nj
          /\ train_csv = sc.tc
          /\ vect_file = sc.vf
          /\ model_file = sc.mf
    /\ NoOutputs
    /\ nx = NoneV /\ ny = <<>>

Next ==
    \/ \E pqItems, pqAgg \in BOOLEAN : EtlMain(pqItems, pqAgg)
    \/ \E vendors \in VendorsArgs, pq \in BOOLEAN : FuzzyMain(vendors, pq)
    \/ \E pq \in BOOLEAN : ModelMain(pq)
    \/ \E fit \in Fits : TrainMain(fit)

Spec == Init /\ [][Next]_vars

(***************************************************************************)
(* The ingest run alone, over families of feeds                            *)
(***************************************************************************)
MaxItems == 2

EtlNames == {Names.A_Menus, Names.a, NoneV}

RawPool ==
    [full |-> DictV([id |-> IntV(1), title |-> StrV(Titles.cb),
                     price |-> StrV(<<"1", "5", "0">>),
                     nutrition |-> DictV([calories |-> IntV(300), protein |-> IntV(12)])]),
     blank |-> DictV([title |-> StrV(Titles.dal), price |-> EmptyStr]),
     dup |-> DictV([id |-> IntV(1), price |-> StrV(<<"0", ".", "9">>),
                    cal |-> StrV(<<"2", "5", "0">>)]),
     bad |-> DictV([id |-> IntV(0), price |-> StrV(<<"a", "b", "c">>),
                    calories |-> StrV(<<"x">>)]),
     free |-> DictV([name |-> StrV(Titles.zz), protein |-> FltV(85)])]

EtlPool == {RawPool[k] : k \in DOMAIN RawPool}

\* One vendor object of up to MaxItems items, two objects of one item, or
\* one object whose second item is no mapping.
EtlVendorFeeds ==
    {Absent}
    \cup {File(<<VendorObject(n, its)>>) :
             n \in EtlNames, its \in UNION {[1..k -> EtlPool] : k \in 0..MaxItems}}
    \cup {File(<<VendorObject(Names.A_Menus, <<i1>>), VendorObject(Names.a, <<i2>>)>>) :
             i1 \in EtlPool, i2 \in EtlPool}
    \cup {File(<<VendorObject(Names.a, <<i1, StrV(Titles.zz)>>)>>) : i1 \in EtlPool}

EtlPartnerFeeds ==
    {Absent, File(<<>>)}
    \cup {File(<<Partner(it, n)>>) :
             it \in {RawPool.blank, RawPool.dup, RawPool.free},
             n \in {Names.A_Menus, NoneV}}

InitEtl ==
    /\ vendor_menus_json \in EtlVendorFeeds
    /\ partner_menus_json \in EtlPartnerFeeds
    /\ nutrition_json = Absent /\ train_csv = Absent
    /\ vect_file = Absent /\ model_file = Absent
    /\ NoOutputs
    /\ nx = NoneV /\ ny = <<>>

NextEtl == \E pqItems, pqAgg \in BOOLEAN : EtlMain(pqItems, pqAgg)

SpecEtl == InitEtl /\ [][NextEtl]_vars

(***************************************************************************)
(* normalize_vendor_name applied, and applied again to its own result      *)
(***************************************************************************)
MaxNameLen == 4

\* Every name of up to MaxNameLen characters, and longer names of interest:
\* a token around a token, and a pair that names one vendor.
RawNames ==
    UNION {[1..n -> {"m", "e", "n", "u", "s", " ", "a", "M"}] : n \in 0..MaxNameLen}
    \cup {<<"m", "e", "m", "e", "n", "u", "n", "u">>,
          <<"S", "p", "i", "c", "e", " ", "V", "i", "l", "l", "a", " ", "M", "e", "n", "u">>,
          <<"s", "p", "i", "c", "e", " ", "v", "i", "l", "l", "a">>}

InitNorm ==
    /\ nx \in {StrV(cs) : cs \in RawNames}
    /\ ny = <<>>
    /\ vendor_menus_json = Absent /\ partner_menus_json = Absent
    /\ nutrition_json = Absent /\ train_csv = Absent
    /\ vect_file = Absent /\ model_file = Absent
    /\ NoOutputs

\* ny[1] = normalize_vendor_name(nx), ny[2] = normalize_vendor_name(ny[1]).
NormalizeStep ==
    /\ Len(ny) < 2
    /\ ny' = Append(ny, normalize_vendor_name(IF ny = <<>> THEN nx ELSE StrV(ny[1])))
    /\ UNCHANGED <<inputs, etl_out, metrics_json, local_out, model_out, artifacts, basic_out, last,
                 nx>>

NextNorm == NormalizeStep

SpecNorm == InitNorm /\ [][NextNorm]_vars


(***************************************************************************)
(* extract_nutrition applied to one raw item                               *)
(***************************************************************************)
\* Raw items over the calorie aliases: under each nested alias and under
\* each top-level alias the key is absent, null or a number of its own; the
\* record has a nested nutrition mapping or none.
ExtractInputs ==
    LET Choices == {"absent", "null", "number"}
        Numbers == [calories |-> 300, cal |-> 310, energy |-> 320]
        Chosen(c, base) ==
            [k \in {a \in DOMAIN c : c[a] # "absent"} |->
                IF c[k] = "null" THEN NoneV ELSE IntV(Numbers[k] + base)]
        Item(top, nested) == DictV(top @@ [nutrition |-> DictV(nested)])
    IN  {DictV(Chosen(t, 100)) : t \in [{"calories", "cal"} -> Choices]}
        \cup {Item(Chosen(t, 100), Chosen(c, 0)) :
                 t \in [{"calories", "cal"} -> Choices],
                 c \in [{"calories", "cal", "energy"} -> Choices]}

InitExtract ==
    /\ nx \in ExtractInputs
    /\ ny = <<>>
    /\ vendor_menus_json = Absent /\ partner_menus_json = Absent
    /\ nutrition_json = Absent /\ train_csv = Absent
    /\ vect_file = Absent /\ model_file = Absent
    /\ NoOutputs

\* ny[1] = extract_nutrition(nx)
ExtractStep ==
    /\ ny = <<>>
    /\ ny' = <<extract_nutrition(nx.d)>>
    /\ UNCHANGED <<inputs, etl_out, metrics_json, local_out, model_out, artifacts, basic_out, last,
                 nx>>

NextExtract == ExtractStep

SpecExtract == InitExtract /\ [][NextExtract]_vars

(***************************************************************************)
(* compute_vendor_aggregates applied to the items of one vendor            *)
(***************************************************************************)
MaxGroup == 3

\* The columns of an item the aggregation reads: a price on either side of
\* each bucket limit or none, and calories and protein present or not.
GroupCells ==
    {[vendor_id |-> Md5Hex8(<<"a">>), vendor_name |-> <<"a">>,
      price_cents |-> p, calories |-> nut[1], protein |-> nut[2]] :
        p \in {NoneV, IntV(CHEAP_BELOW - 1), IntV(CHEAP_BELOW),
               IntV(MEDIUM_BELOW - 1), IntV(MEDIUM_BELOW)},
        nut \in {<<NoneV, NoneV>>, <<FltV(3000), NoneV>>, <<FltV(2500), FltV(85)>>}}

InitAgg ==
    /\ nx \in UNION {[1..n -> GroupCells] : n \in 1..MaxGroup}
    /\ ny = <<>>
    /\ vendor_menus_json = Absent /\ partner_menus_json = Absent
    /\ nutrition_json = Absent /\ train_csv = Absent
    /\ vect_file = Absent /\ model_file = Absent
    /\ NoOutputs

\* ny[1] = compute_vendor_aggregates(nx)
AggregateStep ==
    /\ ny = <<>>
    /\ ny' = <<compute_vendor_aggregates(nx)>>
    /\ UNCHANGED <<inputs, etl_out, metrics_json, local_out, model_out, artifacts, basic_out, last,
                 nx>>

NextAgg == AggregateStep

SpecAgg == InitAgg /\ [][NextAgg]_vars

(***************************************************************************)
(* Both ETLs and the serving layer on one data directory                   *)
(***************************************************************************)
\* No feed, one vendor of two items, or three vendor objects of which two
\* share a name and one has none.
DbVendorFeeds ==
    {Absent,
     File(<<VendorObject(Names.A_Menus, <<RawPool.full, RawPool.dup>>)>>),
     File(<<VendorObject(Names.b, <<RawPool.blank>>),
            VendorObject(Names.b, <<RawPool.free>>),
            VendorObject(NoneV, <<RawPool.full>>)>>)}

DbPartnerFeeds ==
    {Absent, File(<<Partner(RawPool.dup, Names.A_Menus), Partner(RawPool.free, NoneV)>>)}

InitDb ==
    /\ vendor_menus_json \in DbVendorFeeds
    /\ partner_menus_json \in DbPartnerFeeds
    /\ nutrition_json = Absent /\ train_csv = Absent
    /\ vect_file = Absent /\ model_file = Absent
    /\ NoOutputs
    /\ nx = NoneV /\ ny = <<>>

\* The feeds are replaced between two runs.
ReplaceFeeds ==
    /\ vendor_menus_json' \in DbVendorFeeds
    /\ partner_menus_json' \in DbPartnerFeeds
    /\ <<vendor_menus_json', partner_menus_json'>> # <<vendor_menus_json, partner_menus_json>>
    /\ UNCHANGED <<nutrition_json, train_csv, etl_out, metrics_json, local_out, model_out,
                   artifacts, basic_out, last, scratch>>

\* The parquet writes of the advanced ETL succeed here.
NextDb ==
    \/ EtlMain(FALSE, FALSE)
    \/ BasicMain
    \/ list_vendors
    \/ \E vendor_name \in {Names.A_Menus, Names.b} : vendor_detail(vendor_name)
    \/ ReplaceFeeds

SpecDb == InitDb /\ [][NextDb]_vars

(***************************************************************************)
(* etl.py run once on the feeds of InitEtl                                 *)
(***************************************************************************)
NextBasic == BasicMain

SpecBasic == InitEtl /\ [][NextBasic]_vars
(***************************************************************************)
(* Properties                                                              *)
(***************************************************************************)
FuzzyDone == last.stage = "fuzzy" /\ last.how = "done"
ModelDone == last.stage = "model" /\ last.how = "done"

\* The reference entries the fuzzy stage loads.
RefDb == load_nutrition_db(nutrition_json).db

\* Row i of the item table as the fuzzy stage reads it.
FuzzyIn(i) == WithColumns(items_parquet.data[i], FuzzyColumns)

\* The text of a row that is matched: its title, else its item id.
TitleOf(row) == normalize(Or(Or(row.title, row.item_id), EmptyStr))

\* The best score of a title against the reference names.
BestScore(title) ==
    LET S == {WRatio(title, RefDb[j].name) : j \in 1..Len(RefDb)}
    IN  CHOOSE s \in S : \A t \in S : t <= s

\* The reference entry of the best score (the first one, on a tie).
BestEntry(title) ==
    RefDb[CHOOSE i \in 1..Len(RefDb) :
            /\ WRatio(title, RefDb[i].name) = BestScore(title)
            /\ \A j \in 1..(i - 1) : WRatio(title, RefDb[j].name) < BestScore(title)]

\* The vendor of the row is in the --vendors filter, if one is given.
InFilter(row, vendors) ==
    Truthy(vendors) => Lower(row.vendor_name) \in VendorFilter(vendors)

\* out carries the accepted match: entry e at the given score.
AcceptedAs(out, e, score) ==
    /\ out.calories = e.calories
    /\ out.calories_imputed = BoolV(TRUE)
    /\ out.calories_source = StrV(<<"local_indian_nutrition">>)
    /\ out.calories_confidence = (IF score >= 90 THEN FltV(9) ELSE FltV(6))
    /\ out.local_match_score = FltV(10 * score)
    /\ out.local_match_name = StrV(e.name)

\* The raw items in the order main() assembles their rows.
RECURSIVE RawVendorItems(_)
RawVendorItems(vendor_list) ==
    IF vendor_list = <<>> THEN <<>>
    ELSE ItemsOf(Head(vendor_list)).d \o RawVendorItems(Tail(vendor_list))

RawItems == RawVendorItems(load_json(vendor_menus_json)) \o load_json(partner_menus_json)

\* The raw price is absent, empty, or nothing float() accepts.
NoPrice(it) ==
    \/ "price" \notin DOMAIN it.d
    \/ IsNull(it.d.price)
    \/ IsEmptyStr(it.d.price)
    \/ ~ToFloat(it.d.price).ok

\* The top-level keys the ETL writes to the metrics record, and the
\* sub-object each other stage owns.
OwnKeys(stage) ==
    CASE stage = "etl" -> {"total_items", "vendors", "items_with_calories",
                           "items_with_protein", "pct_with_calories", "pct_with_protein"}
      [] stage = "fuzzy" -> {"local_fuzzy_impute"}
      [] stage = "model" -> {"model_impute"}
      [] stage = "train" -> {"text_regressor"}
      [] OTHER -> {}

\* C1: once the fuzzy stage and then the model stage have run, every item the
\* fuzzy stage imputed keeps its calories, source and confidence in the model
\* stage's output, and the model stage assigns values only to items whose
\* calories are still null after the fuzzy stage.
C1_FuzzyKeptByModel ==
    (ModelDone /\ local_csv.exists /\ Len(local_csv.data) = Len(model_csv.data)) =>
        \A i \in 1..Len(local_csv.data) :
            /\ local_csv.data[i].calories_source = StrV(<<"local_indian_nutrition">>) =>
                  /\ model_csv.data[i].calories = local_csv.data[i].calories
                  /\ model_csv.data[i].calories_source = local_csv.data[i].calories_source
                  /\ model_csv.data[i].calories_confidence
                        = local_csv.data[i].calories_confidence
            /\ model_csv.data[i].calories_imputed_model = BoolV(TRUE) =>
                  IsNull(local_csv.data[i].calories)

\* C2: a stage run changes only its own part of the persisted metrics record;
\* every key another stage wrote before is still there, with the same value.
C2_MetricsMerge ==
    [][metrics_json.exists =>
          /\ metrics_json'.exists
          /\ \A k \in DOMAIN metrics_json.data \ OwnKeys(last'.stage) :
                /\ k \in DOMAIN metrics_json'.data
                /\ metrics_json'.data[k] = metrics_json.data[k]]_vars

\* C3: normalize_vendor_name(normalize_vendor_name(x)) = normalize_vendor_name(x)
\* for every string x.
C3_Idempotent == Len(ny) = 2 => ny[2] = ny[1]

\* C4: no two rows of the item table of one ingest run have the same item_id.
C4_ItemIdUnique ==
    items_csv.exists =>
        \A i, j \in 1..Len(items_csv.data) :
            i # j => items_csv.data[i].item_id # items_csv.data[j].item_id

\* C5: two rows whose raw vendor names have equal normalized names carry the
\* same vendor_name and the same vendor_id, and the aggregate table holds one
\* row for that vendor, which counts all the items of those names.
C5_MergeCorrectness ==
    items_csv.exists =>
        \A i, j \in 1..Len(items_csv.data) :
            normalize_vendor_name(items_csv.data[i].source_vendor_name)
                = normalize_vendor_name(items_csv.data[j].source_vendor_name)
            => /\ items_csv.data[i].vendor_name = items_csv.data[j].vendor_name
               /\ items_csv.data[i].vendor_id = items_csv.data[j].vendor_id
               /\ agg_csv.exists =>
                    \E a \in agg_csv.data :
                        /\ a.vendor_id = items_csv.data[i].vendor_id
                        /\ a.item_count =
                              Cardinality({k \in 1..Len(items_csv.data) :
                                  normalize_vendor_name(items_csv.data[k].source_vendor_name)
                                    = normalize_vendor_name(items_csv.data[i].source_vendor_name)})
                        /\ \A b \in agg_csv.data :
                              (b.vendor_id = a.vendor_id \/ b.vendor_name = a.vendor_name)
                                  => b = a

\* Two raw names of one vendor, one from each feed, merged in one aggregate row.
C5_Witness ==
    /\ last.how = "done"
    /\ \E i, j \in 1..Len(items_csv.data) :
          /\ items_csv.data[i].source # items_csv.data[j].source
          /\ items_csv.data[i].source_vendor_name = Names.A_Menus
          /\ items_csv.data[j].source_vendor_name = Names.a
          /\ items_csv.data[i].vendor_id = items_csv.data[j].vendor_id
    /\ \E a \in agg_csv.data : a.vendor_name = <<"a">> /\ a.item_count = 3

\* C6: an item whose raw price is empty, absent or unparseable has a null
\* price_cents, and the price_avg of a vendor is the mean of the non-null
\* price_cents of its items (null when there is none).
C6_NullNotZero ==
    items_csv.exists =>
        /\ \A k \in 1..Len(items_csv.data) :
              NoPrice(RawItems[k]) => IsNull(items_csv.data[k].price_cents)
        /\ agg_csv.exists =>
              \A a \in agg_csv.data :
                  LET known == SelectSeq(items_csv.data,
                                   LAMBDA r : r.vendor_id = a.vendor_id
                                                /\ ~IsNull(r.price_cents))
                  IN  IF known = <<>> THEN IsNull(a.price_avg)
                      ELSE a.price_avg.num * Len(known)
                              = a.price_avg.den * SeqSum([k \in 1..Len(known) |->
                                                            known[k].price_cents.n])

\* A vendor of three items, one without a price and two priced 150 and 0,
\* whose price_avg is 75.
C6_Witness ==
    /\ last.how = "done"
    /\ \E a \in agg_csv.data :
          /\ a.item_count = 3
          /\ a.price_avg = [num |-> 75, den |-> 1]
          /\ \E k \in 1..Len(items_csv.data) :
                /\ items_csv.data[k].vendor_id = a.vendor_id
                /\ NoPrice(RawItems[k])
                /\ IsNull(items_csv.data[k].price_cents)

C8_FuzzyFrame ==
    FuzzyDone =>
        /\ Len(local_csv.data) = Len(items_parquet.data)
        /\ \A i \in 1..Len(local_csv.data) :
              (\/ ~IsNull(FuzzyIn(i).calories)
               \/ ~InFilter(FuzzyIn(i), last.argv)
               \/ BestScore(TitleOf(FuzzyIn(i))) < 75)
              => local_csv.data[i] = FuzzyIn(i)

\* A filtered run that left alone an item with calories, an item outside the
\* filter that matches at 89, and an item in the filter that matches at 74.
C8_Witness ==
    /\ FuzzyDone
    /\ Truthy(last.argv)
    /\ \E i, j, k \in 1..Len(local_csv.data) :
          /\ ~IsNull(FuzzyIn(i).calories)
          /\ BestScore(TitleOf(FuzzyIn(i))) >= 75
          /\ local_csv.data[i] = FuzzyIn(i)
          /\ IsNull(FuzzyIn(j).calories)
          /\ ~InFilter(FuzzyIn(j), last.argv)
          /\ BestScore(TitleOf(FuzzyIn(j))) = 89
          /\ local_csv.data[j] = FuzzyIn(j)
          /\ IsNull(FuzzyIn(k).calories)
          /\ InFilter(FuzzyIn(k), last.argv)
          /\ BestScore(TitleOf(FuzzyIn(k))) = 74
          /\ local_csv.data[k] = FuzzyIn(k)

\* Every row of the table t that is flagged calories_imputed has a source,
\* and not the source 'original'.
Sourced(t) ==
    t.exists =>
        \A i \in 1..Len(t.data) :
            ("calories_imputed" \in DOMAIN t.data[i]
                /\ t.data[i].calories_imputed = BoolV(TRUE))
            => /\ ~IsNull(t.data[i].calories_source)
               /\ t.data[i].calories_source # StrV(<<"original">>)

\* C9: in every item table an imputation stage writes, a row with
\* calories_imputed = true has a calories_source that is neither null nor
\* 'original'.
C9_Provenance ==
    Sourced(local_csv) /\ Sourced(local_parquet) /\ Sourced(model_csv) /\ Sourced(model_parquet)

\* Both imputation stages have written their tables, and the fuzzy stage
\* flagged a row.
C9_Witness ==
    /\ local_parquet.exists /\ model_parquet.exists
    /\ \E i \in 1..Len(local_parquet.data) :
          /\ local_parquet.data[i].calories_imputed = BoolV(TRUE)
          /\ local_parquet.data[i].calories_source = StrV(<<"local_indian_nutrition">>)

\* C10: a model stage run while the vectorizer or the regressor is absent
\* ends with status 0 and leaves every item table, the artifacts and the
\* metrics record as they were.
C10_NoArtifactsNoOp ==
    [][(last'.stage = "model" /\ (~vect_file.exists \/ ~model_file.exists))
          => /\ last'.status = 0
             /\ UNCHANGED <<etl_out, local_out, model_out, artifacts, metrics_json>>]_vars

\* The model stage has run with the vectorizer alone in place, after the
\* fuzzy stage had filled its table.
C10_Witness ==
    /\ last.stage = "model" /\ last.how = "no_artifacts" /\ last.status = 0
    /\ vect_file.exists /\ ~model_file.exists
    /\ items_parquet.exists /\ local_csv.exists /\ ~model_csv.exists

\* Row i of the item table as the model stage reads it.
ModelIn(i) == WithColumns(items_parquet.data[i], ModelColumns)

\* C11: with both artifacts in place, the model stage sets calories to the
\* prediction, calories_imputed_model = true, calories_source =
\* model_regressor and calories_confidence = 0.7 on exactly the rows whose
\* calories are null in its input table, and leaves every other row as it was.
C11_ModelApplication ==
    ModelDone =>
        /\ Len(model_csv.data) = Len(items_parquet.data)
        /\ \A i \in 1..Len(model_csv.data) :
              IF IsNull(ModelIn(i).calories)
              THEN /\ model_csv.data[i].calories
                        = Predict(model_file.data, BuildText(ModelIn(i)))
                   /\ model_csv.data[i].model_pred_calories = model_csv.data[i].calories
                   /\ model_csv.data[i].calories_imputed_model = BoolV(TRUE)
                   /\ model_csv.data[i].calories_source = StrV(<<"model_regressor">>)
                   /\ model_csv.data[i].calories_confidence = FltV(7)
                   /\ \A f \in DOMAIN ModelIn(i) \ (ModelColumns \cup {"calories"}) :
                         model_csv.data[i][f] = ModelIn(i)[f]
              ELSE model_csv.data[i] = ModelIn(i)

\* A model run that filled one row and left alone a row that had calories.
C11_Witness ==
    /\ ModelDone
    /\ \E i, j \in 1..Len(model_csv.data) :
          /\ IsNull(ModelIn(i).calories)
          /\ model_csv.data[i].calories_confidence = FltV(7)
          /\ ~IsNull(ModelIn(j).calories)
          /\ model_csv.data[j] = ModelIn(j)

\* C12: a stage ends with a non-zero status exactly on its fatal condition:
\* the ingest run when the feeds hold no item, the fuzzy stage when the item
\* table is missing, the model stage when the item table or an artifact is
\* missing.
C12_FatalExitStatus ==
    /\ last.stage = "etl" => (last.status # 0 <=> RawItems = <<>>)
    /\ last.stage = "fuzzy" => (last.status # 0 <=> ~items_parquet.exists)
    /\ last.stage = "model" =>
          (last.status # 0 <=>
              (~items_parquet.exists \/ ~vect_file.exists \/ ~model_file.exists))

\* What the two entry points return for the feeds in place.
FeedRows ==
    [vendor |-> from_vendor_menus(load_json(vendor_menus_json)),
     partner |-> from_partner_menus(load_json(partner_menus_json))]

\* The ingest run gets as far as its writes: no entry point raises, and
\* there is an item.
EtlWrites ==
    /\ FeedRows.vendor.ok /\ FeedRows.partner.ok
    /\ FeedRows.vendor.rows \o FeedRows.partner.rows # <<>>

\* C13: whether or not a parquet write fails, a stage that gets as far as
\* its writes ends with status 0, with the CSV of each of its tables written
\* and its remaining outputs and its metrics written.
C13_ParquetFailureSwallowed ==
    [][/\ (last'.stage = "etl" /\ EtlWrites) =>
             /\ last'.status = 0
             /\ items_csv' = File(FeedRows.vendor.rows \o FeedRows.partner.rows)
             /\ agg_csv' = File(compute_vendor_aggregates(items_csv'.data))
             /\ output_db'.data = agg_csv'.data /\ output_db'.exists
             /\ metrics_json' = File(compute_metrics(items_csv'.data))
       /\ (last'.stage = "fuzzy" /\ items_parquet.exists /\ RefDb # <<>>) =>
             /\ last'.status = 0
             /\ local_csv' = File(impute(ReadItems(FuzzyColumns), RefDb, last'.argv).df)
             /\ metrics_json'.exists
             /\ "local_fuzzy_impute" \in DOMAIN metrics_json'.data
       /\ (last'.stage = "model" /\ items_parquet.exists /\ ~ArtifactsMissing) =>
             /\ last'.status = 0
             /\ model_csv'.exists
             /\ Len(model_csv'.data) = Len(items_parquet.data)
             /\ metrics_json'.exists
             /\ "model_impute" \in DOMAIN metrics_json'.data]_vars

\* C14: whatever item of a feed is malformed (a price or a nutrition value
\* that is no number, an item that is no mapping), the ingest run builds a
\* row for every item that is a mapping, with a null price where the price
\* could not be coerced.
C14_MalformedNeverAborts ==
    (last.stage = "etl" /\ \E k \in 1..Len(RawItems) : IsDict(RawItems[k])) =>
        /\ FeedRows.vendor.ok /\ FeedRows.partner.ok
        /\ last.how # "raised"
        /\ Len(FeedRows.vendor.rows \o FeedRows.partner.rows)
              = Len(SelectSeq(RawItems, IsDict))
        /\ \A k \in 1..Len(RawItems) :
              (\A j \in 1..Len(RawItems) : IsDict(RawItems[j])) /\ NoPrice(RawItems[k])
                  => IsNull((FeedRows.vendor.rows \o FeedRows.partner.rows)[k].price_cents)

\* C15: extract_nutrition returns, as calories, the first non-null value in
\* the order of priority: the aliases of the nested nutrition mapping in their
\* listed order, then the same aliases at the top level of the record.
C15_LookupOrder ==
    LET RECURSIVE FirstNonNull(_)
        FirstNonNull(vs) ==
            IF vs = <<>> THEN NoneV
            ELSE IF ~IsNull(Head(vs)) THEN Head(vs)
            ELSE FirstNonNull(Tail(vs))
        InOrder(it, nd) ==
            <<Get(nd, "calories"), Get(nd, "cal"), Get(nd, "energy"),
              Get(it, "calories"), Get(it, "cal"), Get(it, "energy")>>
        Expected(v) == IF IsNull(v) THEN NoneV ELSE FltV(10 * v.n)
    IN  Len(ny) = 1 =>
            Get(ny[1], "calories")
                = Expected(FirstNonNull(InOrder(nx.d,
                      IF IsDict(Get(nx.d, "nutrition"))
                      THEN Get(nx.d, "nutrition").d ELSE NoDict)))

\* The rows of the item table in the group of the aggregate row a.
GroupRows(a) ==
    SelectSeq(items_csv.data,
              LAMBDA r : r.vendor_id = a.vendor_id /\ r.vendor_name = a.vendor_name)

\* C16: in every aggregate row items_with_nutrition_count is the number of
\* items of the group with non-null calories, percent_with_nutrition is
\* 100 * items_with_nutrition_count / item_count rounded to two decimals and
\* lies in 0..100, and missing_nutrition_flag is true exactly when the count
\* is 0; the run-level percentages of the metrics are the same rounded
\* quotients over the whole item table, and 0.0 for an empty table.
C16_CoverageRounded ==
    LET \* p is k / n as a percentage, to the nearest hundredth.
        Rounded(p, k, n) ==
            /\ 100 % p.den = 0
            /\ 2 * (p.num * (100 \div p.den) * n - 10000 * k) <= n
            /\ 2 * (10000 * k - p.num * (100 \div p.den) * n) <= n
            /\ 0 <= p.num /\ p.num <= 100 * p.den
        NonNull(g, col) == Cardinality({i \in 1..Len(g) : ~IsNull(g[i][col])})
    IN  /\ agg_csv.exists =>
              \A a \in agg_csv.data :
                  /\ a.item_count = Len(GroupRows(a))
                  /\ a.items_with_nutrition_count = NonNull(GroupRows(a), "calories")
                  /\ Rounded(a.percent_with_nutrition,
                             NonNull(GroupRows(a), "calories"), Len(GroupRows(a)))
                  /\ a.missing_nutrition_flag = (NonNull(GroupRows(a), "calories") = 0)
        /\ (last.stage = "etl" /\ last.how = "done") =>
              /\ metrics_json.data.total_items = Len(items_csv.data)
              /\ Rounded(metrics_json.data.pct_with_calories,
                         NonNull(items_csv.data, "calories"), Len(items_csv.data))
              /\ Rounded(metrics_json.data.pct_with_protein,
                         NonNull(items_csv.data, "protein"), Len(items_csv.data))
        /\ compute_metrics(<<>>).pct_with_calories = [num |-> 0, den |-> 1]
        /\ compute_metrics(<<>>).pct_with_protein = [num |-> 0, den |-> 1]

\* A vendor of three items of which two have calories: 66.67 per cent, in the
\* aggregate row and in the metrics.
C16_Witness ==
    /\ last.stage = "etl" /\ last.how = "done"
    /\ \E a \in agg_csv.data :
          /\ a.item_count = 3
          /\ a.items_with_nutrition_count = 2
          /\ a.percent_with_nutrition = [num |-> 6667, den |-> 100]
          /\ ~a.missing_nutrition_flag
    /\ metrics_json.data.pct_with_calories = [num |-> 6667, den |-> 100]

\* C16 as stated: percent_with_nutrition and the run-level percentages are
\* exactly 100 * count / total.
C16_CoverageExact ==
    LET NonNull(g, col) == Cardinality({i \in 1..Len(g) : ~IsNull(g[i][col])})
    IN  /\ agg_csv.exists =>
              \A a \in agg_csv.data :
                  /\ a.items_with_nutrition_count = NonNull(GroupRows(a), "calories")
                  /\ a.percent_with_nutrition.num * a.item_count
                        = 100 * a.items_with_nutrition_count * a.percent_with_nutrition.den
                  /\ a.missing_nutrition_flag = (a.items_with_nutrition_count = 0)
        /\ (last.stage = "etl" /\ last.how = "done") =>
              /\ metrics_json.data.pct_with_calories.num * Len(items_csv.data)
                    = 100 * NonNull(items_csv.data, "calories")
                          * metrics_json.data.pct_with_calories.den
              /\ metrics_json.data.pct_with_protein.num * Len(items_csv.data)
                    = 100 * NonNull(items_csv.data, "protein")
                          * metrics_json.data.pct_with_protein.den

C18_EmptyStatistics ==
    LET Null(v) == "t" \in DOMAIN v /\ v.t = "none"
        Known(col) == {i \in 1..Len(nx) : ~IsNull(nx[i][col])}
        RECURSIVE Total(_, _)
        Total(col, is) ==
            IF is = {} THEN 0
            ELSE LET i == CHOOSE j \in is : TRUE
                 IN  nx[i][col].n + Total(col, is \ {i})
        MeanIs(v, col, scale) ==
            ~Null(v) /\ v.num * scale * Cardinality(Known(col)) = v.den * Total(col, Known(col))
        Extreme(v, col, Below(_, _)) ==
            /\ ~Null(v)
            /\ \E i \in Known(col) : v.num * 10 = v.den * nx[i][col].n
            /\ \A i \in Known(col) : Below(v.num * 10, v.den * nx[i][col].n)
    IN  Len(ny) = 1 =>
            \A a \in ny[1] :
                /\ IF Known("calories") = {}
                   THEN /\ Null(a.avg_calories) /\ Null(a.median_calories)
                        /\ Null(a.min_calories) /\ Null(a.max_calories)
                   ELSE /\ MeanIs(a.avg_calories, "calories", 10)
                        /\ ~Null(a.median_calories)
                        /\ Extreme(a.min_calories, "calories", LAMBDA x, y : x <= y)
                        /\ Extreme(a.max_calories, "calories", LAMBDA x, y : x >= y)
                /\ IF Known("protein") = {}
                   THEN a.sum_protein = [num |-> 0, den |-> 1] /\ Null(a.avg_protein)
                   ELSE /\ a.sum_protein.num * 10 = a.sum_protein.den * Total("protein", Known("protein"))
                        /\ MeanIs(a.avg_protein, "protein", 10)
                /\ IF Known("price_cents") = {}
                   THEN Null(a.price_avg) /\ Null(a.price_median) /\ Null(a.price_stddev)
                   ELSE /\ MeanIs(a.price_avg, "price_cents", 1)
                        /\ ~Null(a.price_median) /\ ~Null(a.price_stddev)

\* A group of three items without any protein or price, one of which alone
\* has calories: the calorie statistics are those of that item, the protein
\* sum is 0 and the other statistics are null.
C18_Witness ==
    /\ Len(ny) = 1 /\ Len(nx) = 3
    /\ \A i \in 1..3 : IsNull(nx[i].protein) /\ IsNull(nx[i].price_cents)
    /\ \E i \in 1..3 : nx[i].calories = FltV(3000)
    /\ \E i \in 1..3 : IsNull(nx[i].calories)
    /\ \E a \in ny[1] :
          /\ a.avg_calories = [num |-> 300, den |-> 1]
          /\ a.min_calories = [num |-> 300, den |-> 1]
          /\ a.sum_protein = [num |-> 0, den |-> 1]
          /\ a.avg_protein = NoneV
          /\ a.price_avg = NoneV

\* The rows etl.py computes from the feeds as they are.
BasicRows ==
    LET Merged(vm, pv) ==
            IF pv.ok /\ MergeVendors(vm, pv.vendors).ok
            THEN MergeVendors(vm, pv.vendors).vendors ELSE vm
    IN  IF load_json(partner_menus_json) = <<>>
        THEN aggregate(load_json(vendor_menus_json)).rows
        ELSE aggregate(Merged(load_json(vendor_menus_json),
                              normalize_partner_items(load_json(partner_menus_json)))).rows

\* C19: a run of either ETL that completes leaves, in the stores it writes,
\* exactly the rows it computed from the feeds: the item table and the
\* aggregate table for the advanced ETL, the table vendor_aggregates for
\* both; nothing of their earlier content is kept.
C19_WholesaleReplacement ==
    [][ (UNCHANGED <<vendor_menus_json, partner_menus_json>> /\ last'.how = "done") =>
            /\ last'.stage = "etl" =>
                  /\ items_parquet' = File(FeedRows.vendor.rows \o FeedRows.partner.rows)
                  /\ items_csv' = items_parquet'
                  /\ agg_csv' = File(compute_vendor_aggregates(items_csv'.data))
                  /\ agg_parquet' = agg_csv'
                  /\ output_db'.exists /\ output_db'.data = agg_csv'.data
            /\ last'.stage = "basic_etl" =>
                  /\ output_db'.exists /\ output_db'.data = BasicRows
                  /\ output_db'.columns = BasicColumns
                  /\ aggregates_csv' = File(BasicRows)
      ]_vars

\* A completed run of etl.py after which the table has no row of a vendor
\* that an earlier query was answered with.
C19_Witness ==
    /\ last.stage = "basic_etl" /\ last.how = "done"
    /\ output_db.exists /\ output_db.data # <<>>
    /\ \E i \in 1..Len(ny) :
          \A j \in 1..Len(output_db.data) : output_db.data[j].vendor # ny[i].vendor

\* C20: once a run of either ETL has written vendor_aggregates, the query
\* for all vendors is answered with one row for each row of the table, and
\* the query for a vendor of the table with the row of that vendor.
C20_ServingInterface ==
    LET IsNamed(r, name) ==
            IF "vendor" \in DOMAIN r THEN r.vendor = name
            ELSE r.vendor_name = normalize_vendor_name(name)
        Stored == IF output_db.columns = BasicColumns
                  THEN {output_db.data[i] : i \in 1..Len(output_db.data)}
                  ELSE output_db.data
    IN  output_db.exists =>
            /\ last.stage = "list_vendors" =>
                  /\ last.status = 200
                  /\ Cardinality({ny[i] : i \in 1..Len(ny)}) = Cardinality(Stored)
            /\ (last.stage = "vendor_detail" /\ \E r \in Stored : IsNamed(r, nx)) =>
                  /\ last.status = 200
                  /\ Len(ny) = 1
                  /\ IsNamed(ny[1], nx)

C22_BasicMergeConservation ==
    LET RECURSIVE Counts(_)
        Counts(rows) ==
            IF rows = <<>> THEN 0 ELSE Head(rows).item_count + Counts(Tail(rows))
    IN  (last.stage = "basic_etl" /\ aggregates_csv.exists) =>
            Counts(aggregates_csv.data) = Len(RawItems)

=============================================================================
